---------------------------- MODULE Spec2Model ----------------------------
(***************************************************************************)
(* s3tonowhere: the "fetch" run of main.go.                                *)
(*                                                                         *)
(* One control goroutine (cmd_run -> walkBucketObjects -> displayResults), *)
(* one goroutine per listed key (the closure of walkBucketObjects running  *)
(* downloadS3Object), and one collector goroutine (collectResult) joined   *)
(* by an unbuffered channel of ChannelSample.                              *)
(*                                                                         *)
(* Wall time is a clock of whole seconds, `now`.  A float64 is an exact    *)
(* rational [num, den] in lowest terms (the values met here are small).    *)
(***************************************************************************)
EXTENDS Integers, Sequences, FiniteSets, TLC

\* Bounds of the model.
MaxKeys == 3
MaxSeconds == 1
MaxHistory == 3
MaxProgressSeconds == 6

\* Program constants.
StatusOK == 200
PrintInterval == 2

VARIABLES
    config,           \* Config: LimitObjects, LimitDuration
    nKeys,            \* number of objects in the bucket
    now,              \* wall clock, seconds
    pc,               \* position of the control goroutine
    max_counter,      \* walkBucketObjects: keys dispatched so far
    maxSecondsStart,  \* walkBucketObjects: start of the enumeration
    listErr,          \* the listing has yielded object.Err
    wg,               \* walkBucketObjects: sync.WaitGroup counter
    closed,           \* close(samples) has run
    wpc,              \* position of the goroutine of each key
    skipped,          \* the goroutine took the "Clearing the queue" branch
    cpc,              \* position of collectResult
    count,            \* collectResult: count
    total_size,       \* collectResult: total_size
    startTime,        \* collectResult: startTime
    lastPrint,        \* collectResult: lastPrint
    progress,         \* progress lines logged by collectResult
    result,           \* cmd_run: result
    stdout,           \* the reports printed by displayResults
    exit              \* "running", or how the process ended

vars == << config, nKeys, now, pc, max_counter, maxSecondsStart, listErr, wg,
           closed, wpc, skipped, cpc, count, total_size,
           startTime, lastPrint, progress, result, stdout, exit >>

Keys == 1 .. MaxKeys

\* The bytes of the object behind key k.
ObjSize(k) == 10 * k

-----------------------------------------------------------------------------
\* float64 as an exact rational.

RECURSIVE GCD(_, _)
GCD(a, b) == IF b = 0 THEN a ELSE GCD(b, a % b)

Abs(a) == IF a < 0 THEN -a ELSE a

\* n / d, d > 0.
Rat(n, d) ==
    LET g == GCD(Abs(n), d)
    IN  IF n = 0 THEN [num |-> 0, den |-> 1]
        ELSE [num |-> n \div g, den |-> d \div g]

Zero == Rat(0, 1)

RatAdd(a, b) == Rat(a.num * b.den + b.num * a.den, a.den * b.den)

RatLeq(a, b) == a.num * b.den <= b.num * a.den

RatDivInt(a, n) == Rat(a.num, a.den * n)

-----------------------------------------------------------------------------
\* summariseDownloads and the gonum / slices calls it makes.

RatLess(a, b) == a.num * b.den < b.num * a.den

\* The slice left as it arrived.
SortFloat64s_Unsorted(x) == x

\* sort.Float64s
SortFloat64s(x) == SortSeq(x, RatLess)

\* slices.Max of a non-empty x (on an empty slice it panics: summarisePanics).
SliceMax(x) ==
    x[CHOOSE i \in 1 .. Len(x) : \A j \in 1 .. Len(x) : RatLeq(x[j], x[i])]

RECURSIVE RatSum(_)
RatSum(x) == IF x = << >> THEN Zero ELSE RatAdd(x[1], RatSum(Tail(x)))

\* The sum divided by one more than the length.
Mean_OffByOne(x) == RatDivInt(RatSum(x), Len(x) + 1)

\* stat.Mean(x, nil)
Mean(x) == RatDivInt(RatSum(x), Len(x))

\* The rank counted from the largest value down.
Quantile_FromTop(pct, x) ==
    x[CHOOSE i \in 1 .. Len(x) :
        /\ (Len(x) + 1 - i) * 100 >= pct * Len(x)
        /\ \A j \in (i + 1) .. Len(x) : (Len(x) + 1 - j) * 100 < pct * Len(x)]

\* stat.Quantile(p, stat.Empirical, x, nil) with p = pct / 100 and x sorted:
\* the first x[i] whose rank i reaches p * len(x).
Quantile(pct, x) ==
    x[CHOOSE i \in 1 .. Len(x) :
        /\ i * 100 >= pct * Len(x)
        /\ \A j \in 1 .. (i - 1) : j * 100 < pct * Len(x)]

Summary(x, unit) ==
    [Max  |-> SliceMax(x),
     Mean |-> Mean(x),
     P99  |-> Quantile(99, x),
     P95  |-> Quantile(95, x),
     P90  |-> Quantile(90, x),
     P50  |-> Quantile(50, x),
     Unit |-> unit]

\* float64(sample.size)
samples_size(samples) ==
    [k \in 1 .. Len(samples) |-> Rat(samples[k].size, 1)]

\* float64(sample.size) / sample.duration.Seconds()
samples_rate(samples) ==
    [k \in 1 .. Len(samples) |-> Rat(samples[k].size, samples[k].duration)]

\* status_map[sample.statusCode]++ over the samples
status_map(samples) ==
    [c \in {samples[k].statusCode : k \in 1 .. Len(samples)} |->
        Cardinality({k \in 1 .. Len(samples) : samples[k].statusCode = c})]

\* slices.Max (line 134) panics on an empty slice, before anything is returned.
summarisePanics(res) == Len(res.samples) = 0

summariseDownloads(res) ==
    [size_stats |-> Summary(SortFloat64s(samples_size(res.samples)), "B"),
     rate_stats |-> Summary(SortFloat64s(samples_rate(res.samples)), "B/s"),
     status_map |-> status_map(res.samples)]

\* The Response value displayResults marshals (the host, endpoint and bucket
\* names are fixed strings of the environment and are left out).
Response(res) ==
    LET s == summariseDownloads(res)
    IN  [Start_time         |-> res.start,
         End_time           |-> res.end,
         Downloaded_bytes   |-> res.size,
         Downloaded_objects |-> res.objects,
         Rate_stats         |-> s.rate_stats,
         Size_stats         |-> s.size_stats,
         Http_status        |-> s.status_map]

-----------------------------------------------------------------------------
\* Configuration.

\* setConfigInt: a flag value below 1 is stored as -1.
setConfigInt(value) == IF value < 1 THEN -1 ELSE value

\* The values the two limit flags are given on the command line.
ObjectFlags == -1 .. MaxKeys - 1
DurationFlags == -1 .. MaxSeconds

\* The clock runs as far as the duration limit of the run (MaxSeconds when it
\* has none): no condition of the program changes after that.
MaxTime(cfg) ==
    IF cfg.LimitDuration > 0 THEN cfg.LimitDuration ELSE MaxSeconds

\* The elapsed time compared with the limit whatever its sign.
DurationReached_NoGuard(cfg, start, t) ==
    t - start >= cfg.LimitDuration

\* config.LimitDuration > 0 && time.Since(maxSecondsStart).Seconds() >=
\* float64(config.LimitDuration)
DurationReached(cfg, start, t) ==
    cfg.LimitDuration > 0 /\ t - start >= cfg.LimitDuration

\* The limit compared with > for >=.
ObjectsReached_Late(cfg, n) ==
    cfg.LimitObjects > 0 /\ n > cfg.LimitObjects

\* config.LimitObjects > 0 && max_counter >= config.LimitObjects
ObjectsReached(cfg, n) ==
    cfg.LimitObjects > 0 /\ n >= cfg.LimitObjects

-----------------------------------------------------------------------------
\* The state when cmd_run has made the channel and started collectResult,
\* which has taken its two time stamps, and walkBucketObjects has made its
\* client, taken maxSecondsStart and is about to range over the listing.

Init ==
    /\ \E o \in ObjectFlags, d \in DurationFlags :
          config = [LimitObjects  |-> setConfigInt(o),
                    LimitDuration |-> setConfigInt(d)]
    /\ nKeys \in 0 .. MaxKeys
    /\ now = 0
    /\ pc = "list"
    /\ max_counter = 0
    /\ maxSecondsStart = 0
    /\ listErr = FALSE
    /\ wg = 0
    /\ closed = FALSE
    /\ wpc = [k \in Keys |-> "idle"]
    /\ skipped = [k \in Keys |-> FALSE]
    /\ cpc = "recv"
    /\ count = 0
    /\ total_size = 0
    /\ startTime = 0
    /\ lastPrint = 0
    /\ progress = << >>
    /\ result = [start |-> 0, end |-> 0, objects |-> 0, size |-> 0,
                 samples |-> << >>]
    /\ stdout = << >>
    /\ exit = "running"

Running == exit = "running"

\* A second of wall time passes.
Tick ==
    /\ Running
    /\ now < MaxTime(config)
    /\ now' = now + 1
    /\ UNCHANGED << config, nKeys, pc, max_counter, maxSecondsStart, listErr,
                    wg, closed, wpc, skipped, cpc, count,
                    total_size, startTime, lastPrint, progress, result,
                    stdout, exit >>

workerVars == << wpc, skipped >>
collectorVars == << cpc, count, total_size, startTime, lastPrint, progress,
                    result >>
mainVars == << pc, max_counter, maxSecondsStart, listErr, closed, stdout >>
fixedVars == << config, nKeys >>

-----------------------------------------------------------------------------
\* walkBucketObjects

\* The listing yields the next key: wg.Add(1) and the goroutine is started.
ListKey ==
    /\ Running /\ pc = "list"
    /\ max_counter < nKeys
    /\ wg' = wg + 1
    /\ wpc' = [wpc EXCEPT ![max_counter + 1] = "spawned"]
    /\ pc' = "limits"
    /\ UNCHANGED << fixedVars, now, max_counter, maxSecondsStart, listErr,
                    closed, stdout, skipped, collectorVars,
                    exit >>

\* The listing yields object.Err: log.Error and return, without wg.Wait().
ListError ==
    /\ Running /\ pc = "list"
    /\ listErr' = TRUE
    /\ pc' = "close"
    /\ UNCHANGED << fixedVars, now, max_counter, maxSecondsStart, wg, closed,
                    stdout, workerVars, collectorVars, exit >>

\* The listing is exhausted: the loop ends.
ListEnd ==
    /\ Running /\ pc = "list"
    /\ max_counter = nKeys
    /\ pc' = "wait"
    /\ UNCHANGED << fixedVars, now, max_counter, maxSecondsStart, listErr, wg,
                    closed, stdout, workerVars, collectorVars, exit >>

\* The object limit compared before max_counter++.
CheckLimits_CheckFirst ==
    /\ Running /\ pc = "limits"
    /\ max_counter' = max_counter + 1
    /\ pc' = IF \/ ObjectsReached(config, max_counter)
                \/ DurationReached(config, maxSecondsStart, now)
             THEN "wait" ELSE "list"
    /\ UNCHANGED << fixedVars, now, maxSecondsStart, listErr, wg, closed,
                    stdout, workerVars, collectorVars, exit >>

\* max_counter++ and the two limit checks at the end of the loop body.
CheckLimits ==
    /\ Running /\ pc = "limits"
    /\ max_counter' = max_counter + 1
    /\ pc' = IF \/ ObjectsReached(config, max_counter + 1)
                \/ DurationReached(config, maxSecondsStart, now)
             THEN "wait" ELSE "list"
    /\ UNCHANGED << fixedVars, now, maxSecondsStart, listErr, wg, closed,
                    stdout, workerVars, collectorVars, exit >>

\* wg.Wait() returns.
WaitWorkers ==
    /\ Running /\ pc = "wait"
    /\ wg = 0
    /\ pc' = "close"
    /\ UNCHANGED << fixedVars, now, max_counter, maxSecondsStart, listErr, wg,
                    closed, stdout, workerVars, collectorVars, exit >>

-----------------------------------------------------------------------------
\* The goroutine of key k, and downloadS3Object.

\* What io.Copy returns for the object of key k: all its bytes and no error,
\* or some of them and an error whose response carries a status code (0 when
\* the error is not an ErrorResponse).
ReadErrors(k) ==
    {[isize |-> ObjSize(k) \div 2, err |-> TRUE, StatusCode |-> 500]}
CopyResults(k) ==
    {[isize |-> ObjSize(k), err |-> FALSE, StatusCode |-> 0]} \cup ReadErrors(k)

\* time.Since(start) when the sample is built: a download takes milliseconds,
\* which the clock of whole seconds does not resolve, so the duration (in
\* units of its own, never zero) is drawn from a set.
Durations == {1, 2}

\* A sample that takes the status of the response also when io.Copy returned
\* no error.
NewSample_RespStatus(k, r, d) ==
    [size       |-> r.isize,
     objectName |-> k,
     statusCode |-> r.StatusCode,
     duration   |-> d]

\* The ChannelSample downloadS3Object builds from io.Copy's result r.
NewSample(k, r, d) ==
    [size       |-> r.isize,
     objectName |-> k,
     statusCode |-> IF r.err THEN r.StatusCode ELSE StatusOK,
     duration   |-> d]

\* A goroutine that leaves the skipped task without wg.Done().
StartOrSkip_NoDone(k) ==
    /\ Running /\ wpc[k] = "spawned"
    /\ IF DurationReached(config, maxSecondsStart, now)
       THEN /\ skipped' = [skipped EXCEPT ![k] = TRUE]
            /\ wpc' = [wpc EXCEPT ![k] = "done"]
       ELSE /\ wpc' = [wpc EXCEPT ![k] = "download"]
            /\ UNCHANGED skipped
    /\ UNCHANGED << fixedVars, now, mainVars, wg, collectorVars, exit >>

\* The goroutine starts.  *counter++ and *counter-- are unsynchronized writes
\* of a value that only the progress line of collectResult reads: see
\* Receive.  Past the duration limit the goroutine skips the download and
\* returns (the deferred wg.Done()), otherwise downloadS3Object starts.
StartOrSkip(k) ==
    /\ Running /\ wpc[k] = "spawned"
    /\ IF DurationReached(config, maxSecondsStart, now)
       THEN /\ skipped' = [skipped EXCEPT ![k] = TRUE]
            /\ wpc' = [wpc EXCEPT ![k] = "done"]
            /\ wg' = wg - 1
       ELSE /\ wpc' = [wpc EXCEPT ![k] = "download"]
            /\ UNCHANGED << skipped, wg >>
    /\ UNCHANGED << fixedVars, now, mainVars, collectorVars, exit >>

\* A GetObject error after which the goroutine returns and the run goes on.
GetObjectFails_Return(k) ==
    /\ Running /\ wpc[k] = "download"
    /\ wpc' = [wpc EXCEPT ![k] = "failed"]
    /\ wg' = wg - 1
    /\ UNCHANGED << fixedVars, now, mainVars, skipped, collectorVars, exit >>

\* client.GetObject returns an error: log.Fatal ends the process.
GetObjectFails(k) ==
    /\ Running /\ wpc[k] = "download"
    /\ wpc' = [wpc EXCEPT ![k] = "failed"]
    /\ exit' = "fatal"
    /\ UNCHANGED << fixedVars, now, mainVars, wg, skipped, collectorVars >>

\* client.GetObject returns a reader and io.Copy drains it or fails; the
\* goroutine blocks on the send.  Nothing reads the sample before the
\* collector receives it: its fields are drawn in Receive.
Copy(k) ==
    /\ Running /\ wpc[k] = "download"
    /\ wpc' = [wpc EXCEPT ![k] = "send"]
    /\ UNCHANGED << fixedVars, now, mainVars, wg, skipped, collectorVars,
                    exit >>

\* A send on the closed channel panics.
SendOnClosed(k) ==
    /\ Running /\ wpc[k] = "send"
    /\ closed
    /\ exit' = "panic"
    /\ UNCHANGED << fixedVars, now, mainVars, wg, workerVars, collectorVars >>

-----------------------------------------------------------------------------
\* collectResult

\* A collector that keeps only the successful samples.
AppendSample_OnlyOK(samples, sample) ==
    IF sample.statusCode = StatusOK THEN Append(samples, sample) ELSE samples

\* result.samples = append(result.samples, sample)
AppendSample(samples, sample) == Append(samples, sample)

\* total_size = sample.size, for +=
AddSize_Overwrite(total, sample) == sample.size

\* total_size += sample.size
AddSize(total, sample) == total + sample.size

\* A progress line as soon as the interval has passed.
PrintDue_AtInterval(last, t) == t - last >= PrintInterval

\* time.Since(lastPrint) > 2*time.Second
PrintDue(last, t) == t - last > PrintInterval

\* The values a read of *task_counter can yield: it races with the writes of
\* up to MaxKeys goroutines.
CounterValues == -MaxKeys .. MaxKeys

\* The loop body of collectResult for one sample, on the collector's state c.
Collect(c, sample, t) ==
    [c EXCEPT !.samples = AppendSample(@, sample),
              !.count = @ + 1,
              !.total_size = AddSize(@, sample),
              !.lastPrint = IF PrintDue(c.lastPrint, t) THEN t ELSE @]

\* The collector receives the sample goroutine k is sending (the channel is
\* unbuffered: the send and the receive are one step) and runs the loop body;
\* the goroutine returns (the deferred wg.Done()).
Receive(k) ==
    /\ Running /\ cpc = "recv" /\ wpc[k] = "send"
    /\ ~closed
    /\ \E r \in CopyResults(k), d \in Durations :
          LET c == Collect([samples |-> result.samples, count |-> count,
                            total_size |-> total_size,
                            lastPrint |-> lastPrint],
                           NewSample(k, r, d), now)
          IN  /\ result' = [result EXCEPT !.samples = c.samples]
              /\ count' = c.count
              /\ total_size' = c.total_size
              /\ lastPrint' = c.lastPrint
              /\ IF PrintDue(lastPrint, now)
                 THEN \E v \in CounterValues :
                         progress' = Append(progress,
                             [Tasks |-> v, objects |-> c.count,
                              total |-> c.total_size, at |-> now])
                 ELSE UNCHANGED progress
    /\ wpc' = [wpc EXCEPT ![k] = "done"]
    /\ wg' = wg - 1
    /\ UNCHANGED << fixedVars, now, mainVars, skipped, cpc, startTime, exit >>

\* The range loop ends on the closed channel: the totals are stored in result.
Finish ==
    /\ Running /\ cpc = "recv"
    /\ closed
    /\ result' = [result EXCEPT !.start = startTime, !.end = now,
                                !.objects = count, !.size = total_size]
    /\ cpc' = "done"
    /\ UNCHANGED << fixedVars, now, mainVars, wg, workerVars, count,
                    total_size, startTime, lastPrint, progress, exit >>

-----------------------------------------------------------------------------
\* cmd_run, after walkBucketObjects has returned.

\* close(samples)
Close ==
    /\ Running /\ pc = "close"
    /\ closed' = TRUE
    /\ pc' = "join"
    /\ UNCHANGED << fixedVars, now, max_counter, maxSecondsStart, listErr, wg,
                    stdout, workerVars, collectorVars, exit >>

\* displayResults run without wg_ctr.Wait().
Display_NoJoin ==
    /\ Running /\ pc = "join"
    /\ IF summarisePanics(result)
       THEN /\ exit' = "panic"
            /\ UNCHANGED << pc, stdout >>
       ELSE /\ stdout' = Append(stdout, Response(result))
            /\ pc' = "return"
            /\ UNCHANGED exit
    /\ UNCHANGED << fixedVars, now, max_counter, maxSecondsStart, listErr, wg,
                    closed, workerVars, collectorVars >>

\* wg_ctr.Wait() returns, and displayResults runs: summariseDownloads panics
\* on an empty history, otherwise the report is printed.
Display ==
    /\ Running /\ pc = "join"
    /\ cpc = "done"
    /\ IF summarisePanics(result)
       THEN /\ exit' = "panic"
            /\ UNCHANGED << pc, stdout >>
       ELSE /\ stdout' = Append(stdout, Response(result))
            /\ pc' = "return"
            /\ UNCHANGED exit
    /\ UNCHANGED << fixedVars, now, max_counter, maxSecondsStart, listErr, wg,
                    closed, workerVars, collectorVars >>

\* cmd_run returns nil and main returns: the process ends with status 0,
\* whatever goroutines are left.
Exit ==
    /\ Running /\ pc = "return"
    /\ exit' = "ok"
    /\ UNCHANGED << fixedVars, now, mainVars, wg, workerVars, collectorVars >>

-----------------------------------------------------------------------------

Next ==
    \/ Tick
    \/ ListKey
    \/ ListError
    \/ ListEnd
    \/ CheckLimits
    \/ WaitWorkers
    \/ Close
    \/ Display
    \/ Exit
    \/ Finish
    \/ \E k \in Keys :
          \/ StartOrSkip(k)
          \/ GetObjectFails(k)
          \/ Copy(k)
          \/ SendOnClosed(k)
          \/ Receive(k)

Spec == Init /\ [][Next]_vars

-----------------------------------------------------------------------------
\* Vocabulary of the properties.

\* A worker exists for key k.
Spawned(k) == wpc[k] # "idle"

\* The worker of key k has not returned.
InFlight(k) == wpc[k] \in {"spawned", "download", "send"}

\* The worker of key k passed its duration check and began its retrieval.
Began(k) ==
    wpc[k] \in {"download", "send", "failed"} \/ (wpc[k] = "done" /\ ~skipped[k])

\* The samples of key k the collector has received.
SamplesOf(k) ==
    Cardinality({i \in 1 .. Len(result.samples) :
                    result.samples[i].objectName = k})

Failed(sample) == sample.statusCode # StatusOK

NumFailed ==
    Cardinality({i \in 1 .. Len(result.samples) : Failed(result.samples[i])})

Reported == Len(stdout) > 0

RECURSIVE SumOver(_, _)
SumOver(f, S) ==
    IF S = {} THEN 0
    ELSE LET x == CHOOSE y \in S : TRUE IN f[x] + SumOver(f, S \ {x})

\* The sum of the counts of a status histogram.
HistogramTotal(h) == SumOver(h, DOMAIN h)

\* The bytes of the first n objects of the bucket.
BucketBytes(n) == SumOver([k \in 1 .. n |-> ObjSize(k)], 1 .. n)

-----------------------------------------------------------------------------
\* C1: whatever ends the enumeration loop, every spawned worker has returned
\* before the sample channel is closed: once it is closed no worker is in
\* flight, none is left to send.
C1_JoinBeforeClose ==
    closed => \A k \in Keys : ~InFlight(k)

\* C2: when the collector has seen the channel closed, the history holds as
\* many samples as result.objects counts, and the counts of the status
\* histogram of that history add up to the same number.
C2_HistoryMatchesCount ==
    cpc = "done" =>
        /\ Len(result.samples) = result.objects
        /\ HistogramTotal(status_map(result.samples)) = result.objects
        /\ Reported => HistogramTotal(stdout[1].Http_status)
                           = stdout[1].Downloaded_objects

C2_Witness ==
    /\ cpc = "done"
    /\ result.objects = 2
    /\ DOMAIN status_map(result.samples) = {StatusOK, 500}

\* C3: a retrieval that was dispatched and not skipped never has more than
\* one sample, and has exactly one when the run has ended.
C3_ExactlyOneSample ==
    /\ \A k \in Keys : SamplesOf(k) <= 1
    /\ exit # "running" => \A k \in Keys : Began(k) => SamplesOf(k) = 1

\* C4: on an empty bucket (no key, no listing error) the run ends with one
\* report whose counts are 0 and whose statistics are all zero.
C4_EmptyBucketReported ==
    (nKeys = 0 /\ ~listErr /\ exit # "running") =>
        /\ exit = "ok"
        /\ Len(stdout) = 1
        /\ stdout[1].Downloaded_objects = 0
        /\ stdout[1].Downloaded_bytes = 0
        /\ \A st \in {stdout[1].Size_stats, stdout[1].Rate_stats} :
              /\ st.Max = Zero /\ st.Mean = Zero /\ st.P99 = Zero
              /\ st.P95 = Zero /\ st.P90 = Zero /\ st.P50 = Zero

\* C5: with an object limit below the size of the bucket, no duration limit
\* and a listing without error, no worker is spawned beyond the limit, the
\* loop is left once the limit is counted, and the report counts at least
\* as many objects as the limit.
C5_ObjectLimit ==
    (config.LimitObjects > 0 /\ nKeys > config.LimitObjects
        /\ config.LimitDuration <= 0 /\ ~listErr) =>
        /\ Cardinality({k \in Keys : Spawned(k)}) <= config.LimitObjects
        /\ max_counter >= config.LimitObjects => pc \notin {"list", "limits"}
        /\ exit = "ok" =>
              stdout[1].Downloaded_objects >= config.LimitObjects

C5_Witness ==
    /\ exit = "ok" /\ ~listErr
    /\ config.LimitObjects = 2 /\ config.LimitDuration <= 0 /\ nKeys = 3
    /\ stdout[1].Downloaded_objects = 2
    /\ NumFailed = 0

\* C6: under a duration limit, a worker that passed its check and began its
\* retrieval has its sample collected by the end of the run (a run that no
\* failure to open has ended), also when the limit has elapsed meanwhile; and
\* the loop is left once it has seen the limit elapsed.
C6_BegunRetrievalCompletes ==
    config.LimitDuration > 0 =>
        /\ (exit \notin {"running", "fatal"}
                /\ DurationReached(config, maxSecondsStart, now))
              => \A k \in Keys : Began(k) => SamplesOf(k) = 1
        /\ pc \in {"wait", "close", "join", "return"} =>
              \A k \in Keys : k > max_counter => ~Spawned(k)

\* C7: a listing error makes the run end without a report and without the
\* exit status 0.
C7_ListingErrorIsFatal ==
    listErr => (~Reported /\ exit # "ok")

\* C8: at most one report; it is printed only when the enumeration has ended,
\* every worker has returned, and the collector has seen the channel closed
\* and stored its totals; and from then on no worker is in flight.
C8_ReportAfterEverything ==
    /\ Len(stdout) <= 1
    /\ Reported =>
          /\ pc \in {"return"}
          /\ closed /\ cpc = "done"
          /\ result.objects = count /\ result.size = total_size
          /\ \A k \in Keys : ~InFlight(k)

\* C9: with a listing without error and no failure to open, a run in which
\* exactly one read failed ends with exit status 0 and one report; the failed
\* sample carries the status 500 and the bytes read so far, every other
\* worker that began has its full sample with status 200, and the histogram
\* is {200: n-1, 500: 1} for the n retrievals that began.
C9_ReadFailureRecorded ==
    (~listErr /\ exit \notin {"running", "fatal"} /\ NumFailed = 1) =>
        LET n == Cardinality({k \in Keys : Began(k)})
        IN  /\ exit = "ok"
            /\ Len(stdout) = 1
            /\ stdout[1].Downloaded_objects = n
            /\ stdout[1].Http_status =
                  [c \in (IF n = 1 THEN {500} ELSE {StatusOK, 500}) |->
                      IF c = 500 THEN 1 ELSE n - 1]
            /\ \A k \in Keys : Began(k) => SamplesOf(k) = 1
            /\ \A i \in 1 .. Len(result.samples) :
                  LET sm == result.samples[i]
                  IN  IF Failed(sm)
                      THEN sm.statusCode = 500
                           /\ sm.size < ObjSize(sm.objectName)
                      ELSE sm.size = ObjSize(sm.objectName)

C9_Witness ==
    /\ exit = "ok" /\ ~listErr
    /\ Len(result.samples) = 3
    /\ NumFailed = 1
    /\ stdout[1].Http_status[StatusOK] = 2

\* C10: with no limit, a listing without error and every retrieval succeeding,
\* the report has the bytes of all the objects, their number, the largest
\* size as Size_stats.Max and bytes / number as Size_stats.Mean, in whatever
\* order the samples arrived (60, 3, 30 and 20 for the sizes 10, 20, 30).
C10_TotalsOfFullRun ==
    (config.LimitObjects <= 0 /\ config.LimitDuration <= 0 /\ ~listErr
        /\ exit = "ok" /\ NumFailed = 0) =>
        /\ stdout[1].Downloaded_bytes = BucketBytes(nKeys)
        /\ stdout[1].Downloaded_objects = nKeys
        /\ stdout[1].Size_stats.Max = Rat(ObjSize(nKeys), 1)
        /\ stdout[1].Size_stats.Mean = Rat(BucketBytes(nKeys), nKeys)
        /\ nKeys = 3 =>
              /\ stdout[1].Downloaded_bytes = 60
              /\ stdout[1].Downloaded_objects = 3
              /\ stdout[1].Size_stats.Max = Rat(30, 1)
              /\ stdout[1].Size_stats.Mean = Rat(20, 1)

\* A full run of three objects whose samples arrived in the order 3, 1, 2.
C10_Witness ==
    /\ config.LimitObjects <= 0 /\ config.LimitDuration <= 0 /\ ~listErr
    /\ exit = "ok" /\ NumFailed = 0
    /\ nKeys = 3
    /\ [i \in 1 .. 3 |-> result.samples[i].objectName] = << 3, 1, 2 >>

HistoryBytes ==
    SumOver([i \in 1 .. Len(result.samples) |-> result.samples[i].size],
            1 .. Len(result.samples))

\* C14: a task that found the duration limit exceeded has returned without a
\* sample: it is not waited for (the WaitGroup counts exactly the workers
\* that have not returned) and the count and the bytes of the collector are
\* those of the samples, to which it adds nothing.
C14_SkippedTask ==
    /\ wg = Cardinality({k \in Keys :
                            wpc[k] \in {"spawned", "download", "send",
                                        "failed"}})
    /\ \A k \in Keys :
          skipped[k] =>
              /\ wpc[k] = "done"
              /\ SamplesOf(k) = 0
              /\ DurationReached(config, maxSecondsStart, now)
    /\ count = Len(result.samples)
    /\ total_size = HistoryBytes

\* A run that reported one object and skipped another.
C14_Witness ==
    /\ exit = "ok" /\ ~listErr
    /\ \E k \in Keys : skipped[k]
    /\ stdout[1].Downloaded_objects = 1
    /\ stdout[1].Downloaded_bytes = HistoryBytes

\* C15: a failure to open ends the process with exit status 1: the object has
\* no sample, and the step that fails and whatever follows print no report,
\* collect nothing and let no other worker move.
C15_OpenFailureIsFatal ==
    /\ [](\A k \in Keys :
             wpc[k] = "failed" => (exit = "fatal" /\ SamplesOf(k) = 0))
    /\ [][(exit' = "fatal") =>
             /\ stdout' = stdout
             /\ result' = result
             /\ wg' = wg
             /\ \A k \in Keys : wpc'[k] # wpc[k] => wpc'[k] = "failed"]_vars

\* The process ended by a failure to open while another worker was in flight
\* and a sample had been collected.
C15_Witness ==
    /\ exit = "fatal"
    /\ \E k \in Keys : wpc[k] = "failed"
    /\ \E k \in Keys : InFlight(k)
    /\ Len(result.samples) = 1
    /\ wg = 2

\* C16: result changes only in steps of the collector, never once it has
\* returned; the report is made only after that and is the report of the
\* Result as it stays.
C16_ResultSingleWriter ==
    /\ [](Reported => cpc = "done")
    /\ [][/\ (result' # result) =>
                /\ cpc = "recv"
                /\ cpc' = "done" \/ count' = count + 1
                /\ stdout' = stdout /\ pc' = pc
          /\ (stdout' # stdout) =>
                /\ cpc = "done"
                /\ stdout' = << Response(result) >>]_vars

C16_Witness ==
    /\ Reported /\ ~listErr
    /\ cpc = "done"
    /\ Len(result.samples) = 2
    /\ result.end = 1

\* C20: under an object limit, the workers ever spawned, the keys counted, the
\* samples collected and the objects reported never exceed the limit.
C20_NeverAboveObjectLimit ==
    config.LimitObjects > 0 =>
        /\ Cardinality({k \in Keys : Spawned(k)}) <= config.LimitObjects
        /\ max_counter <= config.LimitObjects
        /\ Len(result.samples) <= config.LimitObjects
        /\ count <= config.LimitObjects
        /\ Reported => stdout[1].Downloaded_objects <= config.LimitObjects

C20_Witness ==
    /\ config.LimitObjects = 1
    /\ nKeys = 3
    /\ exit = "ok"
    /\ stdout[1].Downloaded_objects = 1
    /\ max_counter = 1

-----------------------------------------------------------------------------
\* summariseDownloads on its own: displayResults is run on a Result whose
\* history is any sequence of up to MaxHistory samples.

SampleSizes == {0, 10, 20}
SampleStatus == {StatusOK, 500}

SampleData == [size : SampleSizes, statusCode : SampleStatus,
               duration : Durations]

Histories ==
    UNION {[1 .. n -> SampleData] : n \in 0 .. MaxHistory}

\* The history h with the position of each sample as its objectName.
Named(h) ==
    [i \in 1 .. Len(h) |->
        [size |-> h[i].size, objectName |-> i,
         statusCode |-> h[i].statusCode, duration |-> h[i].duration]]

RECURSIVE SizeSum(_)
SizeSum(h) == IF h = << >> THEN 0 ELSE h[1].size + SizeSum(Tail(h))

\* The state in which cmd_run calls displayResults: the channel is closed and
\* collectResult has returned, having stored the totals of the history.
InitSummary ==
    /\ config = [LimitObjects |-> -1, LimitDuration |-> -1]
    /\ \E h \in Histories :
          /\ result = [start |-> 0, end |-> 0, objects |-> Len(h),
                       size |-> SizeSum(h), samples |-> Named(h)]
          /\ count = Len(h)
          /\ total_size = SizeSum(h)
    /\ nKeys = 0
    /\ now = 0
    /\ pc = "join"
    /\ max_counter = 0
    /\ maxSecondsStart = 0
    /\ listErr = FALSE
    /\ wg = 0
    /\ closed = TRUE
    /\ wpc = [k \in Keys |-> "idle"]
    /\ skipped = [k \in Keys |-> FALSE]
    /\ cpc = "done"
    /\ startTime = 0
    /\ lastPrint = 0
    /\ progress = << >>
    /\ stdout = << >>
    /\ exit = "running"

NextSummary ==
    \/ Display
    \/ Exit

SpecSummary == InitSummary /\ [][NextSummary]_vars

\* The history of the Result in another order.
Permuted(h, p) == [i \in 1 .. Len(h) |-> h[p[i]]]

StatsOrdered(st) ==
    /\ RatLeq(st.P50, st.P90)
    /\ RatLeq(st.P90, st.P95)
    /\ RatLeq(st.P95, st.P99)
    /\ RatLeq(st.P99, st.Max)

RECURSIVE Product(_, _)
Product(f, S) ==
    IF S = {} THEN 1
    ELSE LET x == CHOOSE y \in S : TRUE IN f[x] * Product(f, S \ {x})

\* C11: for a history that is not empty the statistics of the report are
\* ordered, p50 <= p90 <= p95 <= p99 <= max, for the sizes and for the rates,
\* and each mean is the sum of the values divided by their number.
C11_StatsOrderedAndMean ==
    Reported =>
        LET h == result.samples
            n == Len(h)
            D == Product([i \in 1 .. n |-> h[i].duration], 1 .. n)
            scaled == [i \in 1 .. n |-> h[i].size * (D \div h[i].duration)]
        IN  /\ n > 0
            /\ StatsOrdered(stdout[1].Size_stats)
            /\ StatsOrdered(stdout[1].Rate_stats)
            /\ stdout[1].Size_stats.Mean = Rat(SizeSum(h), n)
            /\ stdout[1].Rate_stats.Mean = Rat(SumOver(scaled, 1 .. n), D * n)

C11_Witness ==
    /\ Reported
    /\ Len(result.samples) = 3
    /\ RatLess(stdout[1].Size_stats.P50, stdout[1].Size_stats.P99)
    /\ RatLess(stdout[1].Rate_stats.P50, stdout[1].Rate_stats.Max)
    /\ stdout[1].Rate_stats.Mean.den # 1

\* C12: the statistics and the histogram of the report are those of every
\* permutation of the history.
C12_OrderInvariant ==
    Reported =>
        \A p \in Permutations(1 .. Len(result.samples)) :
            LET s == summariseDownloads(
                         [result EXCEPT !.samples = Permuted(@, p)])
            IN  /\ s.size_stats = stdout[1].Size_stats
                /\ s.rate_stats = stdout[1].Rate_stats
                /\ s.status_map = stdout[1].Http_status

\* A history of three samples in which no value is in sorted position.
C12_Witness ==
    /\ Reported
    /\ Len(result.samples) = 3
    /\ [i \in 1 .. 3 |-> result.samples[i].size] = << 20, 0, 10 >>
    /\ [i \in 1 .. 3 |-> result.samples[i].duration] = << 1, 2, 1 >>
    /\ result.samples[1].statusCode # result.samples[2].statusCode

\* C19: for a history of one sample, max, mean and the four percentiles are
\* the size of the sample in the size statistics and its size / duration in
\* the rate statistics, and the histogram is {status: 1}.
C19_SingleSample ==
    (Reported /\ Len(result.samples) = 1) =>
        LET sm == result.samples[1]
            AllAre(st, v) ==
                /\ st.Max = v /\ st.Mean = v /\ st.P50 = v
                /\ st.P90 = v /\ st.P95 = v /\ st.P99 = v
        IN  /\ AllAre(stdout[1].Size_stats, Rat(sm.size, 1))
            /\ AllAre(stdout[1].Rate_stats, Rat(sm.size, sm.duration))
            /\ DOMAIN stdout[1].Http_status = {sm.statusCode}
            /\ stdout[1].Http_status[sm.statusCode] = 1

C19_Witness ==
    /\ Reported
    /\ Len(result.samples) = 1
    /\ result.samples[1].size = 20
    /\ result.samples[1].duration = 2
    /\ result.samples[1].statusCode = 500

-----------------------------------------------------------------------------
\* The progress lines of collectResult: a run without limits, whose clock runs
\* long enough for MaxLines of them, on a bucket of up to as many keys.

MaxLines == MaxProgressSeconds \div (PrintInterval + 1)

InitProgress ==
    /\ config = [LimitObjects |-> setConfigInt(-1),
                 LimitDuration |-> setConfigInt(-1)]
    /\ nKeys \in 0 .. MaxLines
    /\ now = 0
    /\ pc = "list"
    /\ max_counter = 0
    /\ maxSecondsStart = 0
    /\ listErr = FALSE
    /\ wg = 0
    /\ closed = FALSE
    /\ wpc = [k \in Keys |-> "idle"]
    /\ skipped = [k \in Keys |-> FALSE]
    /\ cpc = "recv"
    /\ count = 0
    /\ total_size = 0
    /\ startTime = 0
    /\ lastPrint = 0
    /\ progress = << >>
    /\ result = [start |-> 0, end |-> 0, objects |-> 0, size |-> 0,
                 samples |-> << >>]
    /\ stdout = << >>
    /\ exit = "running"

\* A second of wall time passes.
TickProgress ==
    /\ Running
    /\ now < MaxProgressSeconds
    /\ now' = now + 1
    /\ UNCHANGED << fixedVars, mainVars, wg, workerVars, collectorVars, exit >>

NextProgress ==
    \/ TickProgress
    \/ ListKey
    \/ ListError
    \/ ListEnd
    \/ CheckLimits
    \/ WaitWorkers
    \/ Close
    \/ Display
    \/ Exit
    \/ Finish
    \/ \E k \in Keys :
          \/ StartOrSkip(k)
          \/ GetObjectFails(k)
          \/ Copy(k)
          \/ SendOnClosed(k)
          \/ Receive(k)

SpecProgress == InitProgress /\ [][NextProgress]_vars

\* The sizes of the first n samples of the history, added up.
PrefixBytes(n) ==
    SumOver([i \in 1 .. n |-> result.samples[i].size], 1 .. n)

\* C18: every progress line is printed on the receipt of a sample (it shows
\* the count and the bytes up to that sample, a later line a later sample),
\* more than 2 seconds after the line before it, or after the collector's
\* start for the first; printed or not, the count and the bytes are those of
\* the history.
C18_ProgressThrottled ==
    /\ \A i \in 1 .. Len(progress) :
          /\ progress[i].at - (IF i = 1 THEN startTime
                               ELSE progress[i - 1].at) > PrintInterval
          /\ progress[i].objects \in 1 .. count
          /\ progress[i].total = PrefixBytes(progress[i].objects)
          /\ i > 1 => progress[i].objects > progress[i - 1].objects
    /\ lastPrint = (IF progress = << >> THEN startTime
                    ELSE progress[Len(progress)].at)
    /\ count = Len(result.samples)
    /\ total_size = HistoryBytes

\* A run that ended with two samples, each with its progress line.
C18_Witness ==
    /\ exit = "ok" /\ ~listErr
    /\ Len(progress) = 2
    /\ progress[1].objects = 1
    /\ progress[2].objects = 2
    /\ progress[2].at - progress[1].at = PrintInterval + 1

-----------------------------------------------------------------------------
\* Runs whose listing yields no error and whose retrievals all return, under
\* a scheduler that lets every goroutine that can take a step take it: the
\* channel is then closed only after the join, so no send meets it closed.

NextLive ==
    \/ Tick
    \/ ListKey
    \/ ListEnd
    \/ CheckLimits
    \/ WaitWorkers
    \/ Close
    \/ Display
    \/ Exit
    \/ Finish
    \/ \E k \in Keys :
          \/ StartOrSkip(k)
          \/ Copy(k)
          \/ Receive(k)

\* The Go scheduler runs every runnable goroutine: the main goroutine, the
\* collector and each worker.  The clock is under no obligation.
Fairness ==
    /\ WF_vars(ListKey)
    /\ WF_vars(ListEnd)
    /\ WF_vars(CheckLimits)
    /\ WF_vars(WaitWorkers)
    /\ WF_vars(Close)
    /\ WF_vars(Display)
    /\ WF_vars(Exit)
    /\ WF_vars(Finish)
    /\ \A k \in Keys :
          /\ WF_vars(StartOrSkip(k))
          /\ WF_vars(Copy(k))
          /\ WF_vars(Receive(k))

SpecLive == Init /\ [][NextLive]_vars /\ Fairness

\* C21: in such a run every worker that is sending is received and returns,
\* the join completes, the channel is closed, the collector returns and the
\* report is printed.
C21_RunCompletes ==
    /\ \A k \in Keys : (wpc[k] = "send") ~> (wpc[k] = "done")
    /\ <>(pc \in {"close", "join", "return"})
    /\ <>closed
    /\ <>(cpc = "done")
    /\ <>Reported

=============================================================================
